---- MODULE Spec2Model ----
(***************************************************************************)
(* MockView Trainer frontend: the axios client with its two interceptors   *)
(* (services/api.ts), the service modules built on it (authService.ts,     *)
(* interview/fluency/resume/dashboard services), the browser's             *)
(* localStorage holding the session, and the page state of App.            *)
(*                                                                         *)
(* JavaScript runs each response to completion: the response interceptor,  *)
(* the awaiting service function's try/catch/finally and the resolution of *)
(* its promise are microtasks of the one task that delivers the response,  *)
(* so Settle is one step.                                                   *)
(***************************************************************************)
EXTENDS Bags, FiniteSets, Integers, Sequences, TLC

VARIABLES
    localStorage,   \* window.localStorage: keys 'authToken' and 'user'
    inflight,       \* bag of requests dispatched by apiClient and not yet settled
    currentPage,    \* App's useState<Page>
    windowLocation, \* window.location.href (path) and whether a document load is pending
    lastEvent       \* what the last step did: the value a service call resolved to

vars == <<localStorage, inflight, currentPage, windowLocation, lastEvent>>

(***************************************************************************)
(* Bounds of the model                                                     *)
(***************************************************************************)
MaxInFlight == 2        \* requests that may be awaiting a response at once

(***************************************************************************)
(* JavaScript values                                                        *)
(***************************************************************************)
Undefined == "<undefined>"      \* a missing property / JS undefined
NoItem    == "<null>"           \* what localStorage.getItem returns for a missing key

Tokens == {"tok1", "tok2"}
Users  == {"u1", "u2"}          \* user records, named by their id

\* JS truthiness of a string-or-missing value: if (token), if (userStr), x || y
Truthy(v) == v \notin {Undefined, NoItem, ""}

\* JSON.stringify: a user record becomes its JSON text; undefined stays undefined
JSONStringify(v) == IF v = Undefined THEN Undefined ELSE "{\"id\":\"" \o v \o "\"}"

\* localStorage.setItem(key, value) stores String(value)
ToStorageString(v) == IF v = Undefined THEN "undefined" ELSE v

\* JSON.parse: the texts JSONStringify produces parse back; anything else throws
JSONParses(text) == \E u \in Users : text = JSONStringify(u)
JSONParse(text)  == CHOOSE u \in Users : text = JSONStringify(u)

(***************************************************************************)
(* Response bodies (response.data) and the values service calls resolve to *)
(***************************************************************************)
NoData == [kind |-> "undefined", user |-> Undefined, access_token |-> Undefined,
           token |-> Undefined]

\* data of a signup/login body: Supabase-style {user, access_token}, with either
\* part possibly missing, and the documented {user, token}
AuthDatas ==
    { [kind |-> "object", user |-> u, access_token |-> t, token |-> Undefined] :
        u \in Users \cup {Undefined}, t \in Tokens \cup {Undefined} }
    \cup { [kind |-> "object", user |-> "u1", access_token |-> Undefined, token |-> "tok1"] }

\* data of an updateProfile body: the user record itself
UserData(u) == [kind |-> "user", user |-> u, access_token |-> Undefined, token |-> Undefined]

\* data of any other body: an opaque payload
Payload == [kind |-> "payload", user |-> Undefined, access_token |-> Undefined,
            token |-> Undefined]

ServerMessage == "message from server"

NullBody == [kind |-> "null", success |-> FALSE, message |-> Undefined, data |-> NoData,
             error |-> Undefined]

\* logout resolves to nothing (Promise<void>)
VoidValue == [kind |-> "undefined", success |-> FALSE, message |-> Undefined,
              data |-> NoData, error |-> Undefined]

NoValue == [kind |-> "none", success |-> FALSE, message |-> Undefined, data |-> NoData,
            error |-> Undefined]

Envelope(s, m, d) == [kind |-> "object", success |-> s, message |-> m, data |-> d,
                      error |-> Undefined]

(***************************************************************************)
(* services/api.ts: endpoints and the axios instance                       *)
(***************************************************************************)
AuthOps  == {"signup", "login"}
PlainOps == {"getProfile",
             "startInterview", "getQuestions", "submitAnswer", "submitVoiceAnswer",
             "getFeedback",
             "startFluencyTest", "submitTranscript", "getFluencyScore",
             "buildResume", "analyzeResume", "getTemplates", "exportResume",
             "getResumeFeedback",
             "getStats", "getHistory", "getTrends"}
Ops == AuthOps \cup {"logout", "updateProfile"} \cup PlainOps

\* API_ENDPOINTS as each operation reads it; AUTH has no LOGOUT entry, so logout
\* posts to the url undefined
API_ENDPOINTS(op) ==
    CASE op = "signup"            -> "/auth/signup"
      [] op = "login"             -> "/auth/login"
      [] op = "logout"            -> Undefined
      [] op = "getProfile"        -> "/auth/profile"
      [] op = "updateProfile"     -> "/auth/profile"
      [] op = "startInterview"    -> "/interview/start"
      [] op = "getQuestions"      -> "/interview/questions"
      [] op = "submitAnswer"      -> "/interview/submit-answer"
      [] op = "submitVoiceAnswer" -> "/interview/voice-answer"
      [] op = "getFeedback"       -> "/interview/feedback/{sessionId}"
      [] op = "startFluencyTest"  -> "/fluency/test"
      [] op = "submitTranscript"  -> "/fluency/analyze"
      [] op = "getFluencyScore"   -> "/fluency/score/{testId}"
      [] op = "buildResume"       -> "/resume/build"
      [] op = "analyzeResume"     -> "/resume/analyze"
      [] op = "getTemplates"      -> "/resume/templates"
      [] op = "exportResume"      -> "/resume/export"
      [] op = "getResumeFeedback" -> "/resume/feedback/{resumeId}"
      [] op = "getStats"          -> "/dashboard/stats"
      [] op = "getHistory"        -> "/dashboard/history"
      [] op = "getTrends"         -> "/dashboard/trends"

\* the axios verb each operation calls
Method(op) ==
    IF op \in {"getProfile", "getQuestions", "getFeedback", "getFluencyScore",
               "getTemplates", "getResumeFeedback", "getStats", "getHistory", "getTrends"}
    THEN "GET"
    ELSE IF op = "updateProfile" THEN "PUT" ELSE "POST"

\* the generic text of each operation's catch block
Fallback(op) ==
    CASE op = "signup"            -> "Signup failed"
      [] op = "login"             -> "Login failed"
      [] op = "logout"            -> Undefined
      [] op = "getProfile"        -> "Failed to get profile"
      [] op = "updateProfile"     -> "Failed to update profile"
      [] op = "startInterview"    -> "Failed to start interview"
      [] op = "getQuestions"      -> "Failed to get questions"
      [] op = "submitAnswer"      -> "Failed to submit answer"
      [] op = "submitVoiceAnswer" -> "Failed to submit voice answer"
      [] op = "getFeedback"       -> "Failed to get feedback"
      [] op = "startFluencyTest"  -> "Failed to start fluency test"
      [] op = "submitTranscript"  -> "Failed to analyze fluency"
      [] op = "getFluencyScore"   -> "Failed to get fluency score"
      [] op = "buildResume"       -> "Failed to build resume"
      [] op = "analyzeResume"     -> "Failed to analyze resume"
      [] op = "getTemplates"      -> "Failed to get templates"
      [] op = "exportResume"      -> "Failed to export resume"
      [] op = "getResumeFeedback" -> "Failed to get resume feedback"
      [] op = "getStats"          -> "Failed to get statistics"
      [] op = "getHistory"        -> "Failed to get history"
      [] op = "getTrends"         -> "Failed to get trends"

NoHeader == "<no Authorization header>"

\* a request interceptor that attaches the token without the Bearer scheme
RequestInterceptorBareToken(ls) ==
    IF Truthy(ls.authToken) THEN ls.authToken ELSE NoHeader

\* request interceptor: the Authorization header of a request dispatched while the
\* store holds ls
RequestInterceptor(ls) ==
    LET token == ls.authToken
    IN  IF Truthy(token) THEN "Bearer " \o token ELSE NoHeader

\* the request an operation dispatches; sentWith records the stored token read at
\* dispatch
Request(op, ls) ==
    [op |-> op, method |-> Method(op), url |-> API_ENDPOINTS(op),
     Authorization |-> RequestInterceptor(ls), sentWith |-> ls.authToken]

(***************************************************************************)
(* What the network can answer                                             *)
(***************************************************************************)
Statuses == {200, 201, 400, 401, 403, 404, 500, 503}

\* bodies of a response with an error status: none, or the documented
\* {success: false, message}, or one without a message
ErrorBodies == {NullBody, Envelope(FALSE, ServerMessage, NoData),
                Envelope(FALSE, Undefined, NoData)}

\* data payloads a 2xx body to op may carry
Datas(op) ==
    IF op \in AuthOps THEN AuthDatas \cup {NoData}
    ELSE IF op = "updateProfile" THEN {UserData(u) : u \in Users} \cup {NoData}
    ELSE {Payload, NoData}

\* bodies of a 2xx response to op
OkBodies(op) ==
    {NullBody}
    \cup {Envelope(TRUE, ServerMessage, d) : d \in Datas(op)}
    \cup {Envelope(FALSE, m, d) : m \in {ServerMessage, Undefined},
                                   d \in {NoData, CHOOSE x \in Datas(op) : x # NoData}}

Http(status, body) == [kind |-> "http", status |-> status, body |-> body]
NetworkError == [kind |-> "network", status |-> 0, body |-> NullBody]
Timeout      == [kind |-> "timeout", status |-> 0, body |-> NullBody]

\* axios validateStatus
IsOk(resp) == resp.kind = "http" /\ resp.status >= 200 /\ resp.status < 300

Responses(op) ==
    {Http(s, b) : s \in {x \in Statuses : x < 300}, b \in OkBodies(op)}
    \cup {Http(s, b) : s \in {x \in Statuses : x >= 300}, b \in ErrorBodies}
    \cup {NetworkError, Timeout}

\* error.message of the AxiosError a failed request rejects with
AxiosErrorMessage(resp) ==
    CASE resp.kind = "network" -> "Network Error"
      [] resp.kind = "timeout" -> "timeout of 30000ms exceeded"
      [] OTHER                 -> "Request failed with status code"

(***************************************************************************)
(* The session store (localStorage) as the services read and write it      *)
(***************************************************************************)
EmptyStore == [authToken |-> NoItem, user |-> NoItem]

\* localStorage.removeItem('authToken'); localStorage.removeItem('user')
ClearSession(ls) == [ls EXCEPT !.authToken = NoItem, !.user = NoItem]

\* an isAuthenticated that a stored user satisfies as well
isAuthenticatedByUser(ls) == Truthy(ls.authToken) \/ Truthy(ls.user)

\* authService.isAuthenticated
isAuthenticated(ls) == Truthy(ls.authToken)

\* a getCurrentUser without the try/catch around JSON.parse
getCurrentUserUnguarded(ls) ==
    IF Truthy(ls.user)
    THEN IF JSONParses(ls.user) THEN JSONParse(ls.user) ELSE "<SyntaxError>"
    ELSE NoItem

\* authService.getCurrentUser: null (NoItem) when missing or unparseable
getCurrentUser(ls) ==
    IF Truthy(ls.user)
    THEN IF JSONParses(ls.user) THEN JSONParse(ls.user) ELSE NoItem
    ELSE NoItem

\* authService.getAuthToken
getAuthToken(ls) == ls.authToken

(***************************************************************************)
(* services/api.ts: response interceptor                                   *)
(***************************************************************************)
\* the error handler runs for responses axios rejects; only a 401 has an effect
IsUnauthorized(resp) == resp.kind = "http" /\ ~IsOk(resp) /\ resp.status = 401

\* an interceptor that rejects first and leaves the clearing for later
ResponseInterceptorStoreAfterReject(ls, resp) == ls

\* an interceptor that also ends the session on a server error
ResponseInterceptorStoreOnServerError(ls, resp) ==
    IF resp.kind = "http" /\ resp.status \in {401, 500} THEN ClearSession(ls) ELSE ls

\* a 401 branch that removes the token and leaves the user
ResponseInterceptorStoreTokenOnly(ls, resp) ==
    IF IsUnauthorized(resp) THEN [ls EXCEPT !.authToken = NoItem] ELSE ls

ResponseInterceptorStore(ls, resp) ==
    IF IsUnauthorized(resp) THEN ClearSession(ls) ELSE ls

\* a redirect taken on 403 as well as on 401
ResponseInterceptorLocationOnForbidden(loc, resp) ==
    IF resp.kind = "http" /\ resp.status \in {401, 403}
    THEN [href |-> "/login", loading |-> TRUE]
    ELSE loc

\* window.location.href = '/login' starts a document load
ResponseInterceptorLocation(loc, resp) ==
    IF IsUnauthorized(resp) THEN [href |-> "/login", loading |-> TRUE] ELSE loc

(***************************************************************************)
(* Service functions: what runs after `await apiClient...` settles         *)
(***************************************************************************)
\* a catch block without the `|| 'generic text'` fallback
CatchEnvelopeNoFallback(op, serverMessage, errorMessage) ==
    [kind |-> "object", success |-> FALSE, message |-> serverMessage,
     data |-> NoData, error |-> errorMessage]

\* the object every catch block returns; serverMessage is
\* error.response?.data?.message
CatchEnvelope(op, serverMessage, errorMessage) ==
    [kind |-> "object", success |-> FALSE,
     message |-> IF Truthy(serverMessage) THEN serverMessage ELSE Fallback(op),
     data |-> NoData, error |-> errorMessage]

\* reading response.data.success of a null body throws inside the try block
TypeErrorMessage == "Cannot read properties of null"

\* a catch block that never looks at error.response
CaughtGeneric(op, resp) == CatchEnvelope(op, Undefined, AxiosErrorMessage(resp))

\* what the catch block returns for a rejected request
Caught(op, resp) ==
    CatchEnvelope(op, IF resp.kind = "http" THEN resp.body.message ELSE Undefined,
                  AxiosErrorMessage(resp))

\* a write that keeps a token already stored
StoreAuthKeepFirst(ls, data) ==
    [ls EXCEPT !.authToken = IF Truthy(@) THEN @
                             ELSE IF Truthy(data.access_token) THEN data.access_token ELSE @,
               !.user = ToStorageString(JSONStringify(data.user))]

\* signup and login, the block under `if (response.data.success && response.data.data)`
StoreAuth(ls, data) ==
    [ls EXCEPT !.authToken = IF Truthy(data.access_token) THEN data.access_token ELSE @,
               !.user = ToStorageString(JSONStringify(data.user))]

\* a signup/login that stores whatever data a 2xx body carries, success or not
SignupLoginStoreIgnoringSuccess(ls, resp) ==
    IF IsOk(resp) /\ resp.body.kind = "object" /\ resp.body.data.kind # "undefined"
    THEN StoreAuth(ls, resp.body.data)
    ELSE ls

SignupLoginStore(ls, resp) ==
    IF IsOk(resp) /\ resp.body.kind = "object" /\ resp.body.success
       /\ resp.body.data.kind # "undefined"
    THEN StoreAuth(ls, resp.body.data)
    ELSE ls

SignupLoginValue(op, resp) ==
    IF IsOk(resp)
    THEN IF resp.body.kind = "null"
         THEN CatchEnvelope(op, Undefined, TypeErrorMessage)
         ELSE resp.body
    ELSE Caught(op, resp)

\* a logout that clears the store after the await, inside the try block
LogoutStoreInTry(ls, resp) == IF IsOk(resp) THEN ClearSession(ls) ELSE ls

\* logout: the finally block runs whatever the request did; the promise resolves to
\* undefined
LogoutStore(ls, resp) == ClearSession(ls)
LogoutValue(resp) == VoidValue

\* an updateProfile that fills in a missing stored user but keeps one already stored
UpdateProfileStoreKeepStored(ls, resp) ==
    IF IsOk(resp) /\ resp.body.kind = "object" /\ resp.body.success
       /\ resp.body.data.kind # "undefined"
    THEN [ls EXCEPT !.user = IF Truthy(@) THEN @
                             ELSE ToStorageString(JSONStringify(resp.body.data.user))]
    ELSE ls

\* updateProfile: JSON.stringify(response.data.data) is stored as the user
UpdateProfileStore(ls, resp) ==
    IF IsOk(resp) /\ resp.body.kind = "object" /\ resp.body.success
       /\ resp.body.data.kind # "undefined"
    THEN [ls EXCEPT !.user = ToStorageString(JSONStringify(resp.body.data.user))]
    ELSE ls

UpdateProfileValue(resp) ==
    IF IsOk(resp)
    THEN IF resp.body.kind = "null"
         THEN CatchEnvelope("updateProfile", Undefined, TypeErrorMessage)
         ELSE resp.body
    ELSE Caught("updateProfile", resp)

\* getProfile and the interview, fluency, resume and dashboard functions:
\* `return response.data`, or the catch block's object
PlainValue(op, resp) == IF IsOk(resp) THEN resp.body ELSE Caught(op, resp)

\* an exception reaches the service function's try block: the rejected request, or
\* reading .success of a null body
Throws(op, resp) ==
    \/ ~IsOk(resp)
    \/ op \in AuthOps \cup {"updateProfile"} /\ resp.body.kind = "null"

\* only the auth functions catching
HasCatchAuthOnly(op) == op \in AuthOps

\* every service function wraps its request in try/catch
HasCatch(op) == op \in Ops

\* a service function whose promise stays pending when the request timed out
ServiceSettledPendingOnTimeout(op, resp) ==
    IF resp.kind = "timeout" THEN "pending"
    ELSE IF Throws(op, resp) /\ ~HasCatch(op) THEN "rejected" ELSE "fulfilled"

\* how the promise a service function returned settles
ServiceSettled(op, resp) ==
    IF Throws(op, resp) /\ ~HasCatch(op) THEN "rejected" ELSE "fulfilled"

\* a getProfile that caches the fetched profile as the stored user
ServiceStoreProfileCached(op, ls, resp) ==
    CASE op \in AuthOps       -> SignupLoginStore(ls, resp)
      [] op = "logout"        -> LogoutStore(ls, resp)
      [] op \in {"updateProfile", "getProfile"} -> UpdateProfileStore(ls, resp)
      [] OTHER                -> ls

\* the store after op's continuation ran on resp (ls: the store the interceptor left)
ServiceStore(op, ls, resp) ==
    CASE op \in AuthOps       -> SignupLoginStore(ls, resp)
      [] op = "logout"        -> LogoutStore(ls, resp)
      [] op = "updateProfile" -> UpdateProfileStore(ls, resp)
      [] OTHER                -> ls

\* the value op's promise resolves to
ServiceValue(op, resp) ==
    CASE op \in AuthOps       -> SignupLoginValue(op, resp)
      [] op = "logout"        -> LogoutValue(resp)
      [] op = "updateProfile" -> UpdateProfileValue(resp)
      [] OTHER                -> PlainValue(op, resp)

(***************************************************************************)
(* App: pages                                                              *)
(***************************************************************************)
Features == {"mock-interview", "fluency-tester", "resume-builder", "resume-analyzer",
             "chatbox", "progress", "tips"}
Page == {"welcome", "login", "dashboard"} \cup Features

\* identifiers onNavigate (page: string) is invoked with: the Dashboard's feature
\* ids, and an identifier outside Page
NavigateIdentifiers == Features \cup {"nonexistent-page"}

\* a renderPage without the case for the tips page, which falls to the default
renderPageTipsMissing(page) == IF page \in Page \ {"tips"} THEN page ELSE "welcome"

\* the screen renderPage returns for a page state: its default case renders the
\* welcome screen
renderPage(page) == IF page \in Page THEN page ELSE "welcome"

(***************************************************************************)
(* Steps                                                                   *)
(***************************************************************************)
\* lastEvent: the kind of step; for a dispatch or a settled call its operation and
\* the token its request was sent with; for a settled call the response, how the
\* service function's promise settled and the value it settled with; for a user
\* navigation the callback App was called back on (op) and its argument (arg)
Event(kind, op, sentWith, resp, settled, value) ==
    [kind |-> kind, op |-> op, arg |-> "-", sentWith |-> sentWith,
     response |-> resp.kind, status |-> resp.status, body |-> resp.body,
     settled |-> settled, value |-> value]
NoResponse == [kind |-> "-", status |-> 0, body |-> NullBody]
Step(kind) == Event(kind, "-", NoItem, NoResponse, "-", NoValue)

Init ==
    /\ localStorage = EmptyStore
    /\ inflight = EmptyBag
    /\ currentPage = "welcome"
    /\ windowLocation = [href |-> "/", loading |-> FALSE]
    /\ lastEvent = Step("init")

\* a dispatch in which logout removes the token and the user before its request leaves
DispatchLogoutClearsFirst(op) ==
    LET ls == IF op = "logout" THEN EmptyStore ELSE localStorage
    IN  /\ inflight' = inflight (+) SetToBag({Request(op, ls)})
        /\ localStorage' = ls
        /\ lastEvent' = Event("dispatch", op, ls.authToken, NoResponse, "-", NoValue)
        /\ UNCHANGED <<currentPage, windowLocation>>

\* apiClient.get/post/put called by service function op: the request interceptor
\* runs and the request leaves
Dispatch(op) ==
    /\ inflight' = inflight (+) SetToBag({Request(op, localStorage)})
    /\ lastEvent' = Event("dispatch", op, localStorage.authToken, NoResponse, "-", NoValue)
    /\ UNCHANGED <<localStorage, currentPage, windowLocation>>

\* a caller that awaits each call before the next invokes service function op
Invoke(op) == inflight = EmptyBag /\ Dispatch(op)

\* a caller invokes service function op while earlier calls are still pending
InvokeOverlapping(op) == BagCardinality(inflight) < MaxInFlight /\ Dispatch(op)

\* a client that sends the request again when no response arrived
AfterResponseResent(pending, r, resp) ==
    IF resp.kind \in {"network", "timeout"} THEN pending ELSE pending (-) SetToBag({r})

\* the requests pending once r got resp: the interceptor hands the response, or
\* Promise.reject(error), to the service function, whose try/catch returns; nothing
\* sends r again
AfterResponse(pending, r, resp) == pending (-) SetToBag({r})

\* the request r settles with resp: response interceptor, then the rest of the
\* service function, then its promise resolves
Settle(r, resp) ==
    /\ BagIn(r, inflight)
    /\ inflight' = AfterResponse(inflight, r, resp)
    /\ localStorage' = ServiceStore(r.op, ResponseInterceptorStore(localStorage, resp), resp)
    /\ windowLocation' = ResponseInterceptorLocation(windowLocation, resp)
    /\ lastEvent' = Event("settle", r.op, r.sentWith, resp, ServiceSettled(r.op, resp),
                          ServiceValue(r.op, resp))
    /\ UNCHANGED currentPage

\* the document load started by window.location.href = '/login': the old document's
\* requests are gone and App mounts with its initial page
DocumentLoad ==
    /\ windowLocation.loading
    /\ windowLocation' = [windowLocation EXCEPT !.loading = FALSE]
    /\ inflight' = EmptyBag
    /\ currentPage' = "welcome"
    /\ lastEvent' = Step("load")
    /\ UNCHANGED localStorage

\* a callback prop of App runs setCurrentPage(page); arg is the identifier the
\* callback was given (onNavigate) or the page whose component called it
Navigated(callback, arg, page) ==
    /\ currentPage' = page
    /\ lastEvent' = [Step("nav") EXCEPT !.op = callback, !.arg = arg]
    /\ UNCHANGED <<localStorage, inflight, windowLocation>>

\* WelcomeScreen onGetStarted
GetStarted ==
    renderPage(currentPage) = "welcome" /\ Navigated("onGetStarted", "welcome", "login")

\* WelcomeScreen onLogin
WelcomeLogin ==
    renderPage(currentPage) = "welcome" /\ Navigated("onLogin", "welcome", "login")

\* LoginPage onBack
LoginBack == currentPage = "login" /\ Navigated("onBack", "login", "welcome")

\* LoginPage handleSubmit: calls onLoginSuccess
LoginSubmit == currentPage = "login" /\ Navigated("onLoginSuccess", "login", "dashboard")

\* Dashboard onNavigate
OnNavigate(page) == currentPage = "dashboard" /\ Navigated("onNavigate", page, page)

\* a feature page whose onBack is wired to the welcome page
FeatureBackToWelcome ==
    currentPage \in Features /\ Navigated("onBack", currentPage, "welcome")

\* onBack of a feature page
FeatureBack == currentPage \in Features /\ Navigated("onBack", currentPage, "dashboard")

UserNavigation ==
    \/ GetStarted
    \/ WelcomeLogin
    \/ LoginBack
    \/ LoginSubmit
    \/ \E page \in NavigateIdentifiers : OnNavigate(page)
    \/ FeatureBack

Next ==
    \/ UserNavigation
    \/ \E op \in Ops : Invoke(op)
    \/ \E r \in BagToSet(inflight) : \E resp \in Responses(r.op) : Settle(r, resp)
    \/ DocumentLoad

Spec == Init /\ [][Next]_vars

(***************************************************************************)
(* Overlapping calls: the operations that touch the session, answered as   *)
(* the backend documents (a session of one account, or an error)           *)
(***************************************************************************)
SessionOps == AuthOps \cup {"logout", "updateProfile", "getProfile"}

Account(u) == IF u = "u1" THEN "tok1" ELSE "tok2"

DocumentedData(op) ==
    IF op \in AuthOps
    THEN {[kind |-> "object", user |-> u, access_token |-> Account(u), token |-> Undefined] :
            u \in Users}
         \cup {[kind |-> "object", user |-> "u1", access_token |-> Undefined,
                token |-> "tok1"]}
    ELSE IF op = "updateProfile" THEN {UserData(u) : u \in Users}
    ELSE {Payload}

DocumentedResponses(op) ==
    {Http(200, Envelope(TRUE, ServerMessage, d)) : d \in DocumentedData(op)}
    \cup {Http(s, Envelope(FALSE, ServerMessage, NoData)) : s \in {401, 500}}
    \cup {NetworkError}

NextOverlapping ==
    \/ \E op \in SessionOps : InvokeOverlapping(op)
    \/ \E r \in BagToSet(inflight) : \E resp \in DocumentedResponses(r.op) : Settle(r, resp)
    \/ DocumentLoad

SpecOverlapping == Init /\ [][NextOverlapping]_vars

(***************************************************************************)
(* Overlapping calls against a backend that answers as the services       *)
(* expect: signup and login with a user and that user's access_token (the  *)
(* shape AuthResponse declares), the protected endpoints with 401 to a     *)
(* request without a bearer token and otherwise with the data of the       *)
(* token's account, as API_DOCUMENTATION.md describes them                 *)
(***************************************************************************)
\* the account a token was issued to
Owner(t) == IF t = "tok1" THEN "u1" ELSE "u2"

\* "Requires authentication"
Protected(op) == op \in {"getProfile", "updateProfile"}

BackendData(r) ==
    IF r.op \in AuthOps
    THEN {[kind |-> "object", user |-> u, access_token |-> Account(u), token |-> Undefined] :
            u \in Users}
    ELSE IF r.op = "updateProfile" THEN {UserData(Owner(r.sentWith))}
    ELSE {Payload}

BackendResponses(r) ==
    (IF Protected(r.op) /\ r.Authorization = NoHeader
     THEN {}
     ELSE {Http(200, Envelope(TRUE, ServerMessage, d)) : d \in BackendData(r)})
    \cup {Http(s, Envelope(FALSE, ServerMessage, NoData)) : s \in {401, 500}}
    \cup {NetworkError}

NextBackend ==
    \/ \E op \in SessionOps : InvokeOverlapping(op)
    \/ \E r \in BagToSet(inflight) : \E resp \in BackendResponses(r) : Settle(r, resp)
    \/ DocumentLoad

SpecBackend == Init /\ [][NextBackend]_vars

(***************************************************************************)
(* The service calls alone, with every pending request ending: axios ends  *)
(* a request with a response, a network error or, after the instance's     *)
(* timeout, a timeout error                                                *)
(***************************************************************************)
\* some pending request gets its response or its error
Answered == \E r \in BagToSet(inflight) : \E resp \in Responses(r.op) : Settle(r, resp)

NextCalls ==
    \/ \E op \in Ops : Invoke(op)
    \/ Answered
    \/ DocumentLoad

SpecCalls == Init /\ [][NextCalls]_vars /\ WF_vars(Answered)

(***************************************************************************)
(* Properties                                                              *)
(***************************************************************************)
Settled == lastEvent.kind = "settle"

\* the settled call's request failed: no response, or a status outside 2xx
BackendFailure ==
    /\ Settled
    /\ \/ lastEvent.response \in {"network", "timeout"}
       \/ lastEvent.response = "http" /\ (lastEvent.status < 200 \/ lastEvent.status >= 300)

SessionEmpty == localStorage.authToken = NoItem /\ localStorage.user = NoItem

\* C1: whenever logout() resolves, the stored token and the stored user are both
\* absent, whatever the response (2xx, error status, network error, timeout) and
\* whatever was stored before; logout() never rejects.
LogoutAlwaysClears ==
    (Settled /\ lastEvent.op = "logout")
        => (SessionEmpty /\ lastEvent.settled = "fulfilled")

\* C1 witness: a logout sent with a session's token whose request got no response,
\* and the store is empty
LogoutClearedAfterNetworkError ==
    /\ Settled /\ lastEvent.op = "logout"
    /\ lastEvent.response = "network" /\ lastEvent.sentWith = "tok1"
    /\ SessionEmpty

\* C2: after a completed signup, login or logout the stored token and the stored
\* (readable) user are both present or both absent.
SessionPaired ==
    (Settled /\ lastEvent.op \in AuthOps \cup {"logout"})
        => (isAuthenticated(localStorage) <=> getCurrentUser(localStorage) # NoItem)

\* the settled call was answered 2xx with a body {success: true, data: {...}}
AnsweredSuccessfully ==
    /\ Settled
    /\ lastEvent.response = "http" /\ lastEvent.status >= 200 /\ lastEvent.status < 300
    /\ lastEvent.body.kind = "object" /\ lastEvent.body.success
    /\ lastEvent.body.data.kind # "undefined"

\* C3: after a login or signup answered successfully, isAuthenticated() is true and
\* getCurrentUser() is the user of the payload.
AuthenticatedAfterSuccess ==
    (AnsweredSuccessfully /\ lastEvent.op \in AuthOps)
        => /\ isAuthenticated(localStorage)
           /\ getCurrentUser(localStorage) = lastEvent.body.data.user

\* C4: when any service operation's response has status 401, token and user are
\* gone from the store by the time the operation resolves.
UnauthorizedClearsSession ==
    (Settled /\ lastEvent.response = "http" /\ lastEvent.status = 401) => SessionEmpty

\* C4 witness: a dashboard call sent with a session's token is answered 401
TrendsUnauthorized ==
    /\ Settled /\ lastEvent.op = "getTrends" /\ lastEvent.status = 401
    /\ lastEvent.sentWith = "tok2"
    /\ SessionEmpty

\* C5 as claimed: every operation, logout included, resolves on a backend failure to
\* an envelope with success = false and never rejects.
FailureYieldsEnvelope ==
    BackendFailure
        => /\ lastEvent.settled = "fulfilled"
           /\ lastEvent.value.kind = "object"
           /\ lastEvent.value.success = FALSE

\* C5 amended: on a backend failure no operation rejects; every operation but logout
\* resolves to an envelope with success = false, and logout resolves to undefined.
FailureYieldsEnvelopeExceptLogout ==
    BackendFailure
        => /\ lastEvent.settled = "fulfilled"
           /\ IF lastEvent.op = "logout"
              THEN lastEvent.value.kind = "undefined"
              ELSE lastEvent.value.kind = "object" /\ lastEvent.value.success = FALSE

\* C5 witness: a resume export that timed out resolved to a failed envelope
ExportTimedOut ==
    /\ Settled /\ lastEvent.op = "exportResume" /\ lastEvent.response = "timeout"
    /\ lastEvent.settled = "fulfilled"
    /\ lastEvent.value.success = FALSE
    /\ lastEvent.value.message = Fallback("exportResume")

\* the invariant of a result envelope
EnvelopeInvariant(v) ==
    /\ v.kind = "object"
    /\ v.success = FALSE => (v.data = NoData /\ Truthy(v.message))
    /\ v.success = TRUE => v.data # NoData

\* C6 as claimed: every value a service operation resolves to satisfies the envelope
\* invariant, for every response body and every failure path.
ResultSatisfiesEnvelopeInvariant == Settled => EnvelopeInvariant(lastEvent.value)

\* C6 amended: a value a service operation resolves to is either the body of a 2xx
\* response exactly as received, or an envelope the operation built, with
\* success = false, no data and a non-empty message; logout resolves to undefined.
ResultIsBodyOrBuiltFailure ==
    Settled =>
        IF lastEvent.op = "logout"
        THEN lastEvent.value.kind = "undefined"
        ELSE \/ /\ lastEvent.response = "http"
                /\ lastEvent.status >= 200 /\ lastEvent.status < 300
                /\ lastEvent.value = lastEvent.body
             \/ /\ lastEvent.value.kind = "object"
                /\ lastEvent.value.success = FALSE
                /\ lastEvent.value.data = NoData
                /\ Truthy(lastEvent.value.message)

\* C6 witness: getProfile answered 200 {success: true} without data resolved to that
\* body
ProfileBodyPassedThrough ==
    /\ Settled /\ lastEvent.op = "getProfile" /\ lastEvent.status = 200
    /\ lastEvent.value.kind = "object" /\ lastEvent.value.success
    /\ lastEvent.value.data = NoData

\* C7: a dispatched request carries Authorization: Bearer <t> exactly when the token
\* stored at dispatch is the non-empty value t, and no header otherwise.
BearerIffTokenStored ==
    \A r \in BagToSet(inflight) :
        /\ Truthy(r.sentWith) => r.Authorization = "Bearer " \o r.sentWith
        /\ ~Truthy(r.sentWith) => r.Authorization = NoHeader

\* C7 witness: a dashboard request in flight with the bearer token of a session
StatsSentWithBearer ==
    \E r \in BagToSet(inflight) :
        r.op = "getStats" /\ r.sentWith = "tok2" /\ r.Authorization = "Bearer tok2"

\* the page state or the window location changes in this step
PageOrLocationChanges == currentPage' # currentPage \/ windowLocation' # windowLocation

\* C8 as claimed: the page state and location change only in user navigation steps;
\* no HTTP response changes them.
OnlyUserNavigationChangesPage ==
    [][PageOrLocationChanges => lastEvent'.kind = "nav"]_vars

\* C8 amended: the page state and location change only in user navigation steps,
\* except that a 401 response makes the HTTP client assign
\* window.location.href = '/login' (besides clearing the session), after which the
\* document load restarts App at welcome; no other response changes them.
OnlyNavigationOrUnauthorizedChangesPage ==
    [][PageOrLocationChanges =>
          \/ lastEvent'.kind = "nav"
          \/ /\ lastEvent'.kind = "settle" /\ lastEvent'.status = 401
             /\ windowLocation' = [href |-> "/login", loading |-> TRUE]
             /\ currentPage' = currentPage
          \/ /\ lastEvent'.kind = "load" /\ windowLocation.loading
             /\ currentPage' = "welcome"]_vars

\* C8 witness: a 401 arrived while the dashboard was shown and the redirect is pending
RedirectPendingOnDashboard ==
    /\ Settled /\ lastEvent.status = 401
    /\ windowLocation = [href |-> "/login", loading |-> TRUE]
    /\ currentPage = "dashboard"

\* C9: the page goes from login to dashboard only in the step that received a
\* successful login or signup, with the session authenticated.
DashboardOnlyOnAuthentication ==
    [][(currentPage = "login" /\ currentPage' = "dashboard") =>
          /\ lastEvent'.kind = "settle" /\ lastEvent'.op \in AuthOps
          /\ lastEvent'.value.success
          /\ isAuthenticated(localStorage')]_vars

FeatureSelectAndBack ==
    lastEvent.kind = "nav" =>
        /\ (lastEvent.op = "onNavigate" /\ lastEvent.arg \in Features)
               => currentPage = lastEvent.arg
        /\ (lastEvent.op = "onBack" /\ lastEvent.arg \in Features)
               => currentPage = "dashboard"

\* C11 witness: back from the mock interview page, on the dashboard again
BackFromMockInterview ==
    /\ lastEvent.kind = "nav" /\ lastEvent.op = "onBack"
    /\ lastEvent.arg = "mock-interview"
    /\ currentPage = "dashboard"

\* the response of the settled call, as the interceptor was handed it
LastResponse ==
    [kind |-> lastEvent.response, status |-> lastEvent.status, body |-> lastEvent.body]

\* the settled call was answered 403, 404, 500 or 503, or got no answer at all
PassedThroughFailure ==
    /\ Settled
    /\ \/ lastEvent.response \in {"network", "timeout"}
       \/ lastEvent.response = "http" /\ lastEvent.status \in {403, 404, 500, 503}

\* C12: a 403, 404, 500 or 503 response and a transport failure leave the stored
\* token and user as they were (the interceptor changes neither, and after every
\* operation but logout, whose own finally block clears them, the store is the one
\* before the response) and reach the service operation as a failure: its catch
\* block answers with success = false and the error's message.
ServerErrorsLeaveSession ==
    [][PassedThroughFailure' =>
          /\ ResponseInterceptorStore(localStorage, LastResponse') = localStorage
          /\ lastEvent'.op # "logout" =>
                /\ localStorage' = localStorage
                /\ lastEvent'.value.kind = "object"
                /\ lastEvent'.value.success = FALSE
                /\ lastEvent'.value.error = AxiosErrorMessage(LastResponse')]_vars

\* C12 witness: getHistory answered 503 in a session, which is still stored
HistoryUnavailableInSession ==
    /\ Settled /\ lastEvent.op = "getHistory" /\ lastEvent.status = 503
    /\ lastEvent.sentWith = "tok1" /\ localStorage.authToken = "tok1"
    /\ getCurrentUser(localStorage) = "u1"
    /\ lastEvent.value.success = FALSE

\* C13: only signup, login, updateProfile and logout, and the 401 handler, change
\* the stored token or user: every other step, and so every getProfile, interview,
\* fluency, resume and dashboard call not answered 401, successful or failed,
\* leaves both as they were.
OnlySessionOpsChangeStore ==
    [][localStorage' # localStorage =>
          /\ lastEvent'.kind = "settle"
          /\ \/ lastEvent'.op \in {"signup", "login", "updateProfile", "logout"}
             \/ lastEvent'.response = "http" /\ lastEvent'.status = 401]_vars

\* C13 witness: getProfile answered successfully, the stored session untouched
ProfileFetchedSessionKept ==
    /\ AnsweredSuccessfully /\ lastEvent.op = "getProfile"
    /\ lastEvent.sentWith = "tok2" /\ localStorage.authToken = "tok2"
    /\ getCurrentUser(localStorage) = "u2"

\* C14: an updateProfile answered successfully makes the stored user the user the
\* server returned, whatever user was stored before, and leaves the token as it
\* was; an updateProfile that failed otherwise than with a 401 leaves the stored
\* token and user as they were.
UpdateProfileReplacesUser ==
    [][(lastEvent'.kind = "settle" /\ lastEvent'.op = "updateProfile") =>
          IF AnsweredSuccessfully'
          THEN /\ getCurrentUser(localStorage') = lastEvent'.body.data.user
               /\ localStorage'.authToken = localStorage.authToken
          ELSE ~(lastEvent'.response = "http" /\ lastEvent'.status = 401)
                   => localStorage' = localStorage]_vars

\* C14 witness: in a session, updateProfile answered with user u2, now the stored
\* user beside the unchanged token
ProfileUpdatedInSession ==
    /\ AnsweredSuccessfully /\ lastEvent.op = "updateProfile"
    /\ lastEvent.body.data.user = "u2"
    /\ lastEvent.sentWith = "tok1" /\ localStorage.authToken = "tok1"
    /\ getCurrentUser(localStorage) = "u2"

\* C15: every request logout() has in flight is a POST to the path /auth/logout.
LogoutPostsToLogoutPath ==
    \A r \in BagToSet(inflight) :
        r.op = "logout" => (r.method = "POST" /\ r.url = "/auth/logout")

\* C16: the envelope returned on a backend failure has as message the message of
\* the error response's body when there is one, and otherwise, as on every
\* transport failure, the operation's own fallback string; its error is the
\* error's own message.
FailureMessagePrefersServer ==
    (BackendFailure /\ lastEvent.value.kind = "object") =>
        /\ lastEvent.value.message =
               IF lastEvent.response = "http" /\ Truthy(lastEvent.body.message)
               THEN lastEvent.body.message
               ELSE Fallback(lastEvent.op)
        /\ Truthy(lastEvent.value.message)
        /\ lastEvent.value.error = AxiosErrorMessage(LastResponse)

\* C16 witness: login refused with the server's message, which the envelope carries
LoginRefusedWithServerMessage ==
    /\ BackendFailure /\ lastEvent.op = "login" /\ lastEvent.status = 401
    /\ lastEvent.body.message = ServerMessage
    /\ lastEvent.value.message = ServerMessage
    /\ lastEvent.value.error = "Request failed with status code"

\* C17: in every reachable state isAuthenticated() is true exactly when a token is
\* stored and is not the empty string, whatever is stored as the user.
AuthenticatedIffTokenStored ==
    isAuthenticated(localStorage)
        <=> (localStorage.authToken # NoItem /\ localStorage.authToken # "")

\* C17 witness: a user stored without a token, isAuthenticated() false
UserStoredNotAuthenticated ==
    /\ localStorage.authToken = NoItem
    /\ getCurrentUser(localStorage) = "u1"
    /\ ~isAuthenticated(localStorage)

\* C18: after login, signup or updateProfile stored a user record the server sent,
\* getCurrentUser() is that record; and whenever no user string is stored, or the
\* stored string does not parse, getCurrentUser() is null rather than an exception.
StoredUserRoundTrip ==
    /\ ( /\ AnsweredSuccessfully
         /\ lastEvent.op \in {"login", "signup", "updateProfile"}
         /\ lastEvent.body.data.user \in Users )
           => getCurrentUser(localStorage) = lastEvent.body.data.user
    /\ (localStorage.user = NoItem \/ ~JSONParses(localStorage.user))
           => getCurrentUser(localStorage) = NoItem

\* C18 witness: signup stored the JSON text of user u2, read back as u2
SignedUpUserReadBack ==
    /\ AnsweredSuccessfully /\ lastEvent.op = "signup"
    /\ lastEvent.body.data.user = "u2"
    /\ localStorage.user = "{\"id\":\"u2\"}"
    /\ getCurrentUser(localStorage) = "u2"

\* C19: an invocation of a service operation sends exactly one request, and the
\* step in which it settles, whatever the response (transport failure, timeout,
\* 401, any other status), ends that request and sends none; no other step sends
\* a request.
OneRequestPerInvocation ==
    [][/\ lastEvent'.kind = "dispatch"
           => BagCardinality(inflight') = BagCardinality(inflight) + 1
       /\ lastEvent'.kind = "settle"
           => BagCardinality(inflight') = BagCardinality(inflight) - 1
       /\ lastEvent'.kind \notin {"dispatch", "settle"}
           => BagCardinality(inflight') <= BagCardinality(inflight)]_vars

\* C19 witness: submitAnswer timed out and nothing is in flight
AnswerTimedOutNothingPending ==
    /\ Settled /\ lastEvent.op = "submitAnswer" /\ lastEvent.response = "timeout"
    /\ inflight = EmptyBag

\* C20: once every overlapping signup, login, updateProfile and logout call has
\* settled, the stored token and the stored user are both present or both absent,
\* and when present the user is the account the token was issued to.
SessionConsistentWhenIdle ==
    (Settled /\ inflight = EmptyBag) =>
        /\ (localStorage.authToken = NoItem) <=> (localStorage.user = NoItem)
        /\ localStorage.authToken # NoItem
               => getCurrentUser(localStorage) = Owner(localStorage.authToken)

\* C21: the stored token or user goes from absent to present only in the step in
\* which a login or signup settles successfully, and from present to absent only
\* in the step in which a logout settles or a response is a 401.
SessionLifecycle ==
    [][/\ ( \/ localStorage.authToken = NoItem /\ localStorage'.authToken # NoItem
            \/ localStorage.user = NoItem /\ localStorage'.user # NoItem )
           => (AnsweredSuccessfully' /\ lastEvent'.op \in {"login", "signup"})
       /\ ( \/ localStorage.authToken # NoItem /\ localStorage'.authToken = NoItem
            \/ localStorage.user # NoItem /\ localStorage'.user = NoItem )
           => /\ lastEvent'.kind = "settle"
              /\ \/ lastEvent'.op = "logout"
                 \/ lastEvent'.response = "http" /\ lastEvent'.status = 401]_vars

\* C22: whenever a login or signup settles successfully with a token and a user,
\* whatever other login or signup was answered before it and in whatever order
\* they were invoked, the store holds exactly that response's token and user.
LastWriteWins ==
    ( /\ AnsweredSuccessfully /\ lastEvent.op \in {"login", "signup"}
      /\ lastEvent.body.data.access_token \in Tokens
      /\ lastEvent.body.data.user \in Users )
        => localStorage = [authToken |-> lastEvent.body.data.access_token,
                           user |-> JSONStringify(lastEvent.body.data.user)]

\* C22 witness: a signup sent before any session existed is answered last, with
\* u2 and tok2, over the session tok1 that was created while it was in flight
\* and under which a request is still pending
LaterResponseReplacedSession ==
    /\ AnsweredSuccessfully /\ lastEvent.op = "signup" /\ lastEvent.sentWith = NoItem
    /\ localStorage = [authToken |-> "tok2", user |-> JSONStringify("u2")]
    /\ \E r \in BagToSet(inflight) : r.sentWith = "tok1"

\* the call that settled last was resolved by its service function, a timeout as
\* a transport failure: an envelope with success = false, or nothing from logout
ResolvedCall ==
    /\ Settled
    /\ lastEvent.settled = "fulfilled"
    /\ lastEvent.response = "timeout" =>
           \/ lastEvent.op = "logout" /\ lastEvent.value = VoidValue
           \/ /\ lastEvent.value.kind = "object"
              /\ lastEvent.value.success = FALSE
              /\ lastEvent.value.message = Fallback(lastEvent.op)

EnvelopeAfterUnauthorizedSeesNoSession ==
    ( /\ Settled /\ lastEvent.response = "http" /\ lastEvent.status = 401
      /\ lastEvent.value.kind = "object" /\ lastEvent.value.success = FALSE )
        => (~isAuthenticated(localStorage) /\ getCurrentUser(localStorage) = NoItem)

\* C25 witness: getProfile sent under session tok1 is refused with 401; its
\* failure envelope is delivered and isAuthenticated() is false
ProfileRefusedSessionGone ==
    /\ Settled /\ lastEvent.op = "getProfile" /\ lastEvent.status = 401
    /\ lastEvent.sentWith = "tok1"
    /\ lastEvent.value.success = FALSE /\ lastEvent.value.error # Undefined
    /\ ~isAuthenticated(localStorage)

\* a logout call is pending
LogoutPending == \E r \in BagToSet(inflight) : r.op = "logout"

\* C26: logout() clears nothing before its request has settled: in the step that
\* dispatches the logout request, and in every step that dispatches another
\* request while a logout is pending, the stored token and user stay as they are
\* and the request leaves with the stored token as its bearer token; while a
\* logout is pending the store changes only in steps in which a call settles.
LogoutClearsOnlyWhenSettled ==
    [][/\ (lastEvent'.kind = "dispatch" /\ LogoutPending') =>
              /\ localStorage' = localStorage
              /\ \E q \in BagToSet(inflight') :
                    /\ inflight' = inflight (+) SetToBag({q})
                    /\ q.op = lastEvent'.op
                    /\ q.Authorization =
                           IF localStorage.authToken \in Tokens
                           THEN "Bearer " \o localStorage.authToken
                           ELSE NoHeader
       /\ (LogoutPending /\ lastEvent'.kind # "settle") => localStorage' = localStorage]_vars

\* C26 witness: with the logout of session tok1 pending, getProfile was dispatched
\* with Bearer tok1 and the session is still stored
ProfileSentWhileLogoutPending ==
    /\ lastEvent.kind = "dispatch" /\ lastEvent.op = "getProfile"
    /\ \E r \in BagToSet(inflight) : r.op = "logout" /\ r.Authorization = "Bearer tok1"
    /\ \E q \in BagToSet(inflight) : q.op = "getProfile" /\ q.Authorization = "Bearer tok1"
    /\ localStorage = [authToken |-> "tok1", user |-> JSONStringify("u1")]

\* C27: a login or signup that fails (no response, a status outside 2xx, or a 2xx
\* body with success = false or without data) writes neither token nor user: the
\* store is afterwards what it was before, or empty when the status was 401.
FailedLoginWritesNothing ==
    [][( /\ lastEvent'.kind = "settle" /\ lastEvent'.op \in {"login", "signup"}
         /\ ~AnsweredSuccessfully' ) =>
            IF lastEvent'.response = "http" /\ lastEvent'.status = 401
            THEN localStorage' = EmptyStore
            ELSE localStorage' = localStorage]_vars

\* C27 witness: a login attempted under the valid session tok1 is refused with
\* 401 and the store is empty
RefusedLoginEndedSession ==
    /\ Settled /\ lastEvent.op = "login" /\ lastEvent.status = 401
    /\ lastEvent.sentWith = "tok1"
    /\ lastEvent.value.success = FALSE
    /\ localStorage = EmptyStore

\* C28: a 401 answering a request that was sent with a token other than the one
\* now stored (a request of an earlier session) leaves the stored session as it is.
StaleUnauthorizedKeepsSession ==
    [][( /\ lastEvent'.kind = "settle" /\ lastEvent'.op # "logout"
         /\ lastEvent'.response = "http" /\ lastEvent'.status = 401
         /\ lastEvent'.sentWith # localStorage.authToken )
           => localStorage' = localStorage]_vars

\* C29: when the step that follows the resolution of logout() is the settling of a
\* login, signup or updateProfile (a call that was in flight when logout
\* completed, no call having been invoked since), the store stays empty.
StoreStaysEmptyAfterLogout ==
    [][( /\ Settled /\ lastEvent.op = "logout"
         /\ lastEvent'.kind = "settle"
         /\ lastEvent'.op \in {"login", "signup", "updateProfile"} )
           => localStorage' = EmptyStore]_vars

\* the dashboard or one of the seven feature pages
BehindLogin == {"dashboard"} \cup Features

\* C30: once the current page is the dashboard or a feature page, no user action
\* leads to welcome or login, onNavigate being called with the Dashboard's seven
\* feature ids only: every user action leaves the dashboard or a feature page.
DashboardNeverBackToWelcome ==
    [][( /\ lastEvent'.kind = "nav"
         /\ currentPage \in BehindLogin
         /\ lastEvent'.op = "onNavigate" => lastEvent'.arg \in Features )
           => currentPage' \in BehindLogin]_vars

\* C30 witness: the progress page, selected on the dashboard
ProgressSelectedOnDashboard ==
    /\ lastEvent.kind = "nav" /\ lastEvent.op = "onNavigate" /\ lastEvent.arg = "progress"
    /\ currentPage = "progress"

====
